---- MODULE Spec2Model ----
(***************************************************************************)
(* Model of ConstraintToVarBoundTransform (contrib.constraints_to_var_     *)
(* bounds), pyomo/contrib/preprocessing/plugins/bounds_to_vars.py.         *)
(*                                                                         *)
(* Numbers.  The code works on Python floats.  Every number stored on a    *)
(* variable (lb, ub, value) is held here as the integer Scale * number,    *)
(* where Scale is a common multiple of every coefficient the model draws,  *)
(* so the division of lines 59 and 69 is exact.  Constraint data (lower,   *)
(* upper, constant, coefficients) are plain integers.                      *)
(* An optional number (None in the code) is the empty set, a present one a *)
(* singleton.                                                              *)
(***************************************************************************)
EXTENDS Integers, Sequences, FiniteSets

\* ---------------------------------------------------------------- bounds
MaxCoef == 2     \* linear coefficients are drawn from {-MaxCoef, 0, MaxCoef}
MaxConst == 2    \* repn.constant is drawn from {0, MaxConst}
MaxBnd == 1      \* constraint bounds: lower -MaxBnd or None, upper MaxBnd or None
MaxVal == 1      \* initial variable values: -MaxVal, MaxVal or None
MaxRuns == 2     \* how many times _apply_to is run on the same model

\* ------------------------------------------------------------- optionals
None == {}
Some(n) == {n}
Val(o) == CHOOSE n \in o : TRUE

Abs(n) == IF n < 0 THEN -n ELSE n
min(a, b) == IF b < a THEN b ELSE a
max(a, b) == IF b > a THEN b ELSE a

\* Scale * n is a multiple of every drawn coefficient
Scale == MaxCoef

\* n / c for c # 0, result in scaled units (from __future__ import division)
TrueDiv(n, c) == IF c > 0 THEN (n * Scale) \div c ELSE ((-n) * Scale) \div (-c)

\* pyutilib.math.util.isclose(a, b, rel_tol=1e-09, abs_tol=0.0):
\*   abs(a-b) <= max(rel_tol * max(abs(a), abs(b)), abs_tol)
\* on integers, with rel_tol = 1/RelTolInv (d <= t/R iff d <= t \div R)
RelTolInv == 1000000000
isclose(a, b) == Abs(a - b) <= max(Abs(a), Abs(b)) \div RelTolInv

\* ------------------------------------------------------------ the model
VarNames == {"x", "y"}
ConstrIds == 1..2

Coefs == {-MaxCoef, 0, MaxCoef}
Consts == {0, MaxConst}

\* standard representations of constraint bodies (generate_standard_repn):
\* k*v + c for one variable v
SingleVarRepns ==
  { [linear_vars |-> <<v>>, linear_coefs |-> <<k>>, constant |-> c,
     quadratic_vars |-> <<>>] :
       v \in VarNames, k \in Coefs, c \in Consts }
\* x + y, and x*x
OtherRepns ==
  { [linear_vars |-> <<"x", "y">>, linear_coefs |-> <<1, 1>>, constant |-> 0,
     quadratic_vars |-> <<>>],
    [linear_vars |-> <<>>, linear_coefs |-> <<>>, constant |-> 0,
     quadratic_vars |-> <<"x", "x">>] }
Repns == SingleVarRepns \cup OtherRepns

\* StandardRepn.is_linear, as used on line 48
is_linear(repn) == repn.quadratic_vars = <<>>

Constraints ==
  { [body |-> r, lower |-> lo, upper |-> up, active |-> a] :
       r \in Repns, lo \in {None, Some(-MaxBnd)}, up \in {None, Some(MaxBnd)},
       a \in BOOLEAN }

\* the constraints a model starts with: every active one, and of the inactive
\* ones (which the pass never reads) only MaxCoef*v <= MaxBnd
InitialConstraints ==
  { c \in Constraints :
      \/ c.active
      \/ /\ Len(c.body.linear_vars) = 1
         /\ c.body.linear_coefs = <<MaxCoef>> /\ c.body.constant = 0
         /\ c.lower = None /\ c.upper # None }

\* the variables a model starts with (bounds and values in scaled units);
\* Pyomo does not force an initial value to lie within the bounds
InitialVars ==
  { [lb |-> None,    ub |-> None,    value |-> None],
    [lb |-> None,    ub |-> None,    value |-> Some(Scale * MaxVal)],
    [lb |-> None,    ub |-> Some(0), value |-> Some(Scale * MaxVal)],
    [lb |-> Some(0), ub |-> None,    value |-> Some(-Scale * MaxVal)],
    [lb |-> Some(0), ub |-> Some(0), value |-> Some(0)] }

VARIABLES model, m, run, idx, pc
vars == <<model, m, run, idx, pc>>

\* model is the model as given, m the one _apply_to transforms (its clone in
\* _create_using, lines 35-36); idx is the position of the generator of line 43
Init ==
  /\ model \in [var : [VarNames -> InitialVars],
                con : [ConstrIds -> InitialConstraints]]
  /\ m = model
  /\ run = 1
  /\ idx = 1
  /\ pc = "iter"

\* ------------------------------------------------ steps of _apply_to
constr == m.con[idx]
repn == constr.body
var == repn.linear_vars[1]
const == repn.constant
coef == repn.linear_coefs[1]

setub(mm, v, n) == [mm EXCEPT !.var[v].ub = Some(n)]
setlb(mm, v, n) == [mm EXCEPT !.var[v].lb = Some(n)]
set_value(mm, v, n) == [mm EXCEPT !.var[v].value = Some(n)]
deactivate(mm, c) == [mm EXCEPT !.con[c].active = FALSE]

\* mutant: the new bound replaces the old one without the min
TightenUbNoMin(mm, v, newbound) == setub(mm, v, newbound)

\* lines 61-63 and 75-77
TightenUb(mm, v, newbound) ==
  setub(mm, v, IF mm.var[v].ub # None THEN min(Val(mm.var[v].ub), newbound)
               ELSE newbound)
\* mutant: the new bound replaces the old one without the max
TightenLbNoMax(mm, v, newbound) == setlb(mm, v, newbound)

\* lines 65-67 and 71-73
TightenLb(mm, v, newbound) ==
  setlb(mm, v, IF mm.var[v].lb # None THEN max(Val(mm.var[v].lb), newbound)
               ELSE newbound)

\* mutant: the branch for a negative coefficient (lines 64-67) is missing
UpperStepPositiveOnly(mm, c) ==
  LET con == mm.con[c]
      v == con.body.linear_vars[1]
      k == con.body.linear_coefs[1]
  IN IF con.upper # None /\ k > 0
     THEN TightenUb(mm, v, TrueDiv(Val(con.upper) - con.body.constant, k))
     ELSE mm

\* lines 58-67
UpperStep(mm, c) ==
  LET con == mm.con[c]
      v == con.body.linear_vars[1]
      k == con.body.linear_coefs[1]
  IN IF con.upper # None
     THEN LET newbound == TrueDiv(Val(con.upper) - con.body.constant, k)
          IN IF k > 0 THEN TightenUb(mm, v, newbound)
             ELSE IF k < 0 THEN TightenLb(mm, v, newbound)
             ELSE mm
     ELSE mm

\* mutant: the lower side always tightens lb, whatever the sign of coef
LowerStepNoFlip(mm, c) ==
  LET con == mm.con[c]
      v == con.body.linear_vars[1]
      k == con.body.linear_coefs[1]
  IN IF con.lower # None
     THEN TightenLb(mm, v, TrueDiv(Val(con.lower) - con.body.constant, k))
     ELSE mm

\* lines 68-77
LowerStep(mm, c) ==
  LET con == mm.con[c]
      v == con.body.linear_vars[1]
      k == con.body.linear_coefs[1]
  IN IF con.lower # None
     THEN LET newbound == TrueDiv(Val(con.lower) - con.body.constant, k)
          IN IF k > 0 THEN TightenLb(mm, v, newbound)
             ELSE IF k < 0 THEN TightenUb(mm, v, newbound)
             ELSE mm
     ELSE mm

\* mutant: the value is not repaired against the lower bound
RepairLbStepSkipped(mm, v) == mm

\* lines 86-88
RepairLbStep(mm, v) ==
  LET x == mm.var[v]
  IN IF x.lb # None /\ x.value # None /\ Val(x.value) < Val(x.lb)
     THEN set_value(mm, v, Val(x.lb)) ELSE mm

\* mutant: the comparison with ub is the wrong way round
RepairUbStepWrongSide(mm, v) ==
  LET x == mm.var[v]
  IN IF x.ub # None /\ x.value # None /\ Val(x.value) < Val(x.ub)
     THEN set_value(mm, v, Val(x.ub)) ELSE mm

\* lines 89-91
RepairUbStep(mm, v) ==
  LET x == mm.var[v]
  IN IF x.ub # None /\ x.value # None /\ Val(x.value) > Val(x.ub)
     THEN set_value(mm, v, Val(x.ub)) ELSE mm

\* mutant: any linear body with at least one variable is taken
IsLinearInSomeVar(r) == is_linear(r) /\ Len(r.linear_vars) >= 1

\* lines 48-49
IsSingleVarLinear(r) == is_linear(r) /\ Len(r.linear_vars) = 1

\* lines 47-91: one iteration of the loop, on constraint c of model mm
ProcessConstr(mm, c) ==
  LET con == mm.con[c]
      v == con.body.linear_vars[1]
  IN IF ~IsSingleVarLinear(con.body) THEN mm
     ELSE IF isclose(con.body.linear_coefs[1], 0)
          THEN RepairUbStep(RepairLbStep(deactivate(mm, c), v), v)
          ELSE RepairUbStep(RepairLbStep(
                 deactivate(LowerStep(UpperStep(mm, c), c), c), v), v)

\* lines 43-91: _apply_to visiting the constraints in the order given by the
\* sequence order; only the active ones are yielded
RECURSIVE ApplyInOrder(_, _)
ApplyInOrder(mm, order) ==
  IF order = <<>> THEN mm
  ELSE ApplyInOrder(IF mm.con[Head(order)].active
                    THEN ProcessConstr(mm, Head(order)) ELSE mm,
                    Tail(order))

\* mutant: the generator yields inactive constraints too (active=True missing)
VisitInactive ==
  /\ pc = "iter" /\ idx \in ConstrIds
  /\ ~m.con[idx].active
  /\ IF IsSingleVarLinear(m.con[idx].body)
     THEN /\ pc' = IF isclose(m.con[idx].body.linear_coefs[1], 0)
                   THEN "deactivate" ELSE "upper"
          /\ idx' = idx
     ELSE /\ pc' = pc
          /\ idx' = idx + 1
  /\ UNCHANGED <<model, m, run>>

\* the generator of lines 43-45 yields only constraints that are active
SkipInactive ==
  /\ pc = "iter" /\ idx \in ConstrIds
  /\ ~constr.active
  /\ idx' = idx + 1
  /\ UNCHANGED <<model, m, run, pc>>

\* lines 47-49: not linear, or not linear in exactly one variable
SkipOther ==
  /\ pc = "iter" /\ idx \in ConstrIds
  /\ constr.active
  /\ ~IsSingleVarLinear(repn)
  /\ idx' = idx + 1
  /\ UNCHANGED <<model, m, run, pc>>

\* mutant: a coefficient close to 0 skips the constraint altogether
ZeroCoefContinue ==
  /\ pc = "iter" /\ idx \in ConstrIds
  /\ m.con[idx].active
  /\ IsSingleVarLinear(m.con[idx].body)
  /\ isclose(m.con[idx].body.linear_coefs[1], 0)
  /\ idx' = idx + 1
  /\ UNCHANGED <<model, m, run, pc>>

\* lines 47-56: a single-variable constraint whose coefficient is close to 0
ZeroCoef ==
  /\ pc = "iter" /\ idx \in ConstrIds
  /\ constr.active
  /\ IsSingleVarLinear(repn)
  /\ isclose(coef, 0)
  /\ pc' = "deactivate"
  /\ UNCHANGED <<model, m, run, idx>>

\* lines 47-57: a single-variable constraint with a usable coefficient
Candidate ==
  /\ pc = "iter" /\ idx \in ConstrIds
  /\ constr.active
  /\ IsSingleVarLinear(repn)
  /\ ~isclose(coef, 0)
  /\ pc' = "upper"
  /\ UNCHANGED <<model, m, run, idx>>

Upper ==
  /\ pc = "upper"
  /\ m' = UpperStep(m, idx)
  /\ pc' = "lower"
  /\ UNCHANGED <<model, run, idx>>

Lower ==
  /\ pc = "lower"
  /\ m' = LowerStep(m, idx)
  /\ pc' = "deactivate"
  /\ UNCHANGED <<model, run, idx>>

\* line 78
Deactivate ==
  /\ pc = "deactivate"
  /\ m' = deactivate(m, idx)
  /\ pc' = "repair_lb"
  /\ UNCHANGED <<model, run, idx>>

RepairLb ==
  /\ pc = "repair_lb"
  /\ m' = RepairLbStep(m, var)
  /\ pc' = "repair_ub"
  /\ UNCHANGED <<model, run, idx>>

RepairUb ==
  /\ pc = "repair_ub"
  /\ m' = RepairUbStep(m, var)
  /\ pc' = "iter"
  /\ idx' = idx + 1
  /\ UNCHANGED <<model, run>>

\* the loop of line 43 is exhausted: _apply_to returns
Return ==
  /\ pc = "iter" /\ idx \notin ConstrIds
  /\ pc' = "done"
  /\ UNCHANGED <<model, m, run, idx>>

\* the transformation is applied again to the transformed model
ApplyAgain ==
  /\ pc = "done" /\ run < MaxRuns
  /\ run' = run + 1
  /\ idx' = 1
  /\ pc' = "iter"
  /\ UNCHANGED <<model, m>>

Next ==
  \/ SkipInactive
  \/ SkipOther
  \/ ZeroCoef
  \/ Candidate
  \/ Upper
  \/ Lower
  \/ Deactivate
  \/ RepairLb
  \/ RepairUb
  \/ Return
  \/ ApplyAgain

Spec == Init /\ [][Next]_vars

\* ------------------------------------------------------- claim vocabulary
Done == pc = "done"

\* constraint c was active and linear in exactly one variable at the start
LinearInOneVar(con) ==
  con.body.quadratic_vars = <<>> /\ Len(con.body.linear_vars) = 1
InitiallyFoldable(c) == model.con[c].active /\ LinearInOneVar(model.con[c])

\* the body of con is nonlinear, or linear in two or more variables
NonCandidate(con) ==
  con.body.quadratic_vars # <<>> \/ Len(con.body.linear_vars) >= 2

VarOf(c) == model.con[c].body.linear_vars[1]
CoefOf(c) == model.con[c].body.linear_coefs[1]
ConstOf(c) == model.con[c].body.constant

\* variable v is referenced by an initially active single-variable constraint
Referenced(v) == \E c \in ConstrIds : InitiallyFoldable(c) /\ VarOf(c) = v

\* values (in scaled units) tried for each variable of an assignment
MaxSample == Scale * (MaxBnd + MaxConst + MaxVal) + 1
Samples == -MaxSample..MaxSample

\* the assignment a satisfies constraint con (body compared in scaled units)
Satisfies(con, a) ==
  IF is_linear(con.body)
  THEN LET r == con.body
           body == IF Len(r.linear_vars) = 1
                   THEN r.linear_coefs[1] * a[r.linear_vars[1]]
                        + Scale * r.constant
                   ELSE r.linear_coefs[1] * a[r.linear_vars[1]]
                        + r.linear_coefs[2] * a[r.linear_vars[2]]
                        + Scale * r.constant
       IN /\ con.lower # None => Scale * Val(con.lower) <= body
          /\ con.upper # None => body <= Scale * Val(con.upper)
  ELSE LET r == con.body
           body == a[r.quadratic_vars[1]] * a[r.quadratic_vars[2]]
                   + Scale * Scale * r.constant
       IN /\ con.lower # None => Scale * Scale * Val(con.lower) <= body
          /\ con.upper # None => body <= Scale * Scale * Val(con.upper)

\* the assignment a satisfies every variable bound and active constraint of mm
Feasible(mm, a) ==
  /\ \A v \in VarNames :
       /\ mm.var[v].lb # None => Val(mm.var[v].lb) <= a[v]
       /\ mm.var[v].ub # None => a[v] <= Val(mm.var[v].ub)
  /\ \A c \in ConstrIds : mm.con[c].active => Satisfies(mm.con[c], a)

\* ---------------------------------------------------------------- claims

\* C1: the pass produces an equivalent model: once _apply_to has returned, an
\* assignment of values to the variables satisfies all initial variable
\* bounds and initially active constraints iff it satisfies all variable
\* bounds and still-active constraints of the transformed model.
EquivalentModel ==
  Done => \A a \in [VarNames -> Samples] : Feasible(model, a) <=> Feasible(m, a)

\* C2: monotonic tightening: in every step of _apply_to a lower bound that is
\* set stays set and does not decrease, and an upper bound that is set stays
\* set and does not increase.
MonotonicTightening ==
  [][\A v \in VarNames :
       /\ m.var[v].lb # None =>
            m'.var[v].lb # None /\ Val(m'.var[v].lb) >= Val(m.var[v].lb)
       /\ m.var[v].ub # None =>
            m'.var[v].ub # None /\ Val(m'.var[v].ub) <= Val(m.var[v].ub)]_vars

\* a constraint implying a looser upper bound than the one the variable had
\* was folded, and another one tightened a bound of some variable
TighteningWitness ==
  /\ Done
  /\ \E c \in ConstrIds :
       /\ InitiallyFoldable(c) /\ CoefOf(c) > 0 /\ model.con[c].upper # None
       /\ model.var[VarOf(c)].ub # None
       /\ TrueDiv(Val(model.con[c].upper) - ConstOf(c), CoefOf(c))
            > Val(model.var[VarOf(c)].ub)
       /\ m.var[VarOf(c)].ub = model.var[VarOf(c)].ub
  /\ \E v \in VarNames :
       /\ model.var[v].lb # None
       /\ Val(m.var[v].lb) > Val(model.var[v].lb)

NonCandidatesUntouched ==
  /\ [](\A c \in ConstrIds :
          NonCandidate(model.con[c]) => m.con[c] = model.con[c])
  /\ [][(pc = "iter" /\ idx \in ConstrIds /\ NonCandidate(m.con[idx]))
          => m' = m]_vars

\* x + y stayed active while a single-variable constraint changed x
NonCandidateWitness ==
  /\ Done
  /\ \E c, d \in ConstrIds :
       /\ model.con[c].active /\ Len(model.con[c].body.linear_vars) = 2
       /\ m.con[c].active
       /\ InitiallyFoldable(d) /\ VarOf(d) = "x"
       /\ m.var["x"] # model.var["x"]

\* C5 (as stated): once _apply_to has returned, every variable that has a
\* value has value >= lb whenever lb is set and value <= ub whenever ub is
\* set.
ValueFeasible ==
  Done => \A v \in VarNames :
            m.var[v].value # None =>
              /\ m.var[v].lb # None => Val(m.var[v].value) >= Val(m.var[v].lb)
              /\ m.var[v].ub # None => Val(m.var[v].value) <= Val(m.var[v].ub)

\* C5 (amended): once _apply_to has returned, every variable that has a
\* value and is referenced by an initially active single-variable linear
\* constraint has value <= ub whenever ub is set, and value >= lb whenever lb
\* is set and the bounds do not cross (ub unset or lb <= ub).
ReferencedValueFeasible ==
  Done => \A v \in VarNames :
            (Referenced(v) /\ m.var[v].value # None) =>
              /\ m.var[v].ub # None => Val(m.var[v].value) <= Val(m.var[v].ub)
              /\ (m.var[v].lb # None
                   /\ (m.var[v].ub = None \/ Val(m.var[v].lb) <= Val(m.var[v].ub)))
                   => Val(m.var[v].value) >= Val(m.var[v].lb)

\* a value was moved onto a bound that a folded constraint tightened, and
\* another variable ended with crossing bounds and its value on ub
ValueRepairedWitness ==
  /\ Done
  /\ \E v \in VarNames :
       /\ Referenced(v) /\ m.var[v].value # model.var[v].value
       /\ m.var[v].ub # model.var[v].ub /\ m.var[v].value = m.var[v].ub
  /\ \E v \in VarNames :
       /\ Referenced(v) /\ m.var[v].value # None
       /\ m.var[v].lb # None /\ m.var[v].ub # None
       /\ Val(m.var[v].lb) > Val(m.var[v].ub)
       /\ m.var[v].value = m.var[v].ub

\* C6: idempotence: running _apply_to again on the transformed model changes
\* no lb, ub, value or active flag: no step of a later run changes the model.
SecondRunChangesNothing ==
  [][run' >= 2 => m' = m]_vars

\* a second run has finished on a model whose first run folded a constraint
\* and left another one active
SecondRunWitness ==
  /\ Done /\ run = 2
  /\ \E c, d \in ConstrIds :
       /\ InitiallyFoldable(c) /\ CoefOf(c) # 0 /\ m.var[VarOf(c)] # model.var[VarOf(c)]
       /\ m.con[d].active

\* every order in which the constraints can be visited
Orders ==
  { o \in [ConstrIds -> ConstrIds] : \A i, j \in ConstrIds : o[i] = o[j] => i = j }

\* C7: order independence: the model _apply_to ends with (every lb, ub, value
\* and active flag) is the one it ends with when the constraints are visited
\* in any other order.
OrderIndependent ==
  Done => \A o \in Orders : m = ApplyInOrder(model, o)

\* two constraints with different implied bounds on the same side of the same
\* variable were folded, and the variable's value was moved
OrderWitness ==
  /\ Done
  /\ \E c, d \in ConstrIds :
       /\ c # d /\ InitiallyFoldable(c) /\ InitiallyFoldable(d)
       /\ VarOf(c) = VarOf(d)
       /\ CoefOf(c) > 0 /\ CoefOf(d) > 0
       /\ model.con[c].upper # None /\ model.con[d].upper # None
       /\ ConstOf(c) # ConstOf(d)
       /\ m.var[VarOf(c)].value # model.var[VarOf(c)].value

\* the pass has applied a bound of the constraint it is visiting: the setub
\* or setlb of lines 58-67 once past "upper", of lines 68-77 once past "lower"
BoundAppliedFromCurrent ==
  \/ pc \in {"lower", "deactivate"} /\ m.con[idx].upper # None
  \/ pc = "deactivate" /\ m.con[idx].lower # None

\* C8 (as stated): each constraint's transformation is atomic: in no state of
\* the pass has a bound been applied from a constraint that is still active.
AtomicTransformation ==
  ~(/\ run = 1 /\ idx \in ConstrIds
    /\ LinearInOneVar(m.con[idx]) /\ m.con[idx].body.linear_coefs[1] # 0
    /\ BoundAppliedFromCurrent
    /\ m.con[idx].active)

\* the bounds of mm make constraint con redundant: con is linear in one
\* variable with coefficient k # 0, and k*x + const stays within
\* [lower, upper] for every x within the variable's bounds
ImpliedByBounds(mm, con) ==
  LET x == mm.var[con.body.linear_vars[1]]
      k == con.body.linear_coefs[1]
      c == con.body.constant
  IN /\ con.upper # None =>
          IF k > 0
          THEN x.ub # None /\ k * Val(x.ub) + Scale * c <= Scale * Val(con.upper)
          ELSE x.lb # None /\ k * Val(x.lb) + Scale * c <= Scale * Val(con.upper)
     /\ con.lower # None =>
          IF k > 0
          THEN x.lb # None /\ k * Val(x.lb) + Scale * c >= Scale * Val(con.lower)
          ELSE x.ub # None /\ k * Val(x.ub) + Scale * c >= Scale * Val(con.lower)

\* C8 (amended): wherever the pass is stopped, every constraint it has
\* deactivated whose coefficient is not treated as zero has had every bound
\* it implies applied to its variable (the bounds of the variable are at
\* least as tight); the converse does not hold, a bound is applied while its
\* constraint is still active.
DeactivatedImpliesApplied ==
  \A c \in ConstrIds :
    (InitiallyFoldable(c) /\ CoefOf(c) # 0 /\ ~m.con[c].active)
      => ImpliedByBounds(m, model.con[c])

\* the pass is stopped right after deactivating a two-sided constraint, with
\* the repair of the variable's value still to come
InterruptedWitness ==
  /\ pc = "repair_lb" /\ run = 1
  /\ model.con[idx].lower # None /\ model.con[idx].upper # None
  /\ CoefOf(idx) # 0
  /\ ~m.con[idx].active
  /\ m.var[VarOf(idx)].value # None
  /\ Val(m.var[VarOf(idx)].value) < Val(m.var[VarOf(idx)].lb)

MinOf(S) == CHOOSE n \in S : \A k \in S : n <= k
MaxOf(S) == CHOOSE n \in S : \A k \in S : n >= k

\* the upper bounds on v stated by the initial model: its own ub, and
\* (U - const)/coef for coef > 0, (L - const)/coef for coef < 0
UpperTerms(v) ==
  model.var[v].ub
  \cup { TrueDiv(Val(model.con[c].upper) - ConstOf(c), CoefOf(c)) :
           c \in { d \in ConstrIds : /\ InitiallyFoldable(d) /\ VarOf(d) = v
                                     /\ CoefOf(d) > 0
                                     /\ model.con[d].upper # None } }
  \cup { TrueDiv(Val(model.con[c].lower) - ConstOf(c), CoefOf(c)) :
           c \in { d \in ConstrIds : /\ InitiallyFoldable(d) /\ VarOf(d) = v
                                     /\ CoefOf(d) < 0
                                     /\ model.con[d].lower # None } }

LowerTerms(v) ==
  model.var[v].lb
  \cup { TrueDiv(Val(model.con[c].lower) - ConstOf(c), CoefOf(c)) :
           c \in { d \in ConstrIds : /\ InitiallyFoldable(d) /\ VarOf(d) = v
                                     /\ CoefOf(d) > 0
                                     /\ model.con[d].lower # None } }
  \cup { TrueDiv(Val(model.con[c].upper) - ConstOf(c), CoefOf(c)) :
           c \in { d \in ConstrIds : /\ InitiallyFoldable(d) /\ VarOf(d) = v
                                     /\ CoefOf(d) < 0
                                     /\ model.con[d].upper # None } }

\* C9: once _apply_to has returned, each variable's ub is the minimum of its
\* initial ub and the upper bounds implied by its initially active
\* single-variable constraints, its lb the maximum of its initial lb and the
\* implied lower bounds; a bound with no term is unset.
BoundsMatchReference ==
  Done => \A v \in VarNames :
            /\ m.var[v].ub = IF UpperTerms(v) = {} THEN None
                             ELSE Some(MinOf(UpperTerms(v)))
            /\ m.var[v].lb = IF LowerTerms(v) = {} THEN None
                             ELSE Some(MaxOf(LowerTerms(v)))

\* a variable ended with bounds that each had several different terms, one
\* of them from a negative coefficient
ReferenceWitness ==
  /\ Done
  /\ \E v \in VarNames :
       /\ Cardinality(UpperTerms(v)) >= 2 /\ Cardinality(LowerTerms(v)) >= 2
       /\ \E c \in ConstrIds :
            InitiallyFoldable(c) /\ VarOf(c) = v /\ CoefOf(c) < 0

\* value n clamped to the bounds of variable record x
Clamp(n, x) ==
  IF x.lb # None /\ n < Val(x.lb) THEN Val(x.lb)
  ELSE IF x.ub # None /\ n > Val(x.ub) THEN Val(x.ub)
  ELSE n

\* C10: the value of a variable that has no value or is referenced by no
\* initially active single-variable constraint never changes; once _apply_to
\* has returned, the value of a referenced variable whose final bounds do not
\* cross is its initial value clamped to the final [lb, ub].
ValueIsClamped ==
  \A v \in VarNames :
    IF model.var[v].value = None \/ ~Referenced(v)
    THEN m.var[v].value = model.var[v].value
    ELSE (/\ Done
          /\ (m.var[v].lb = None \/ m.var[v].ub = None
                \/ Val(m.var[v].lb) <= Val(m.var[v].ub)))
           => m.var[v].value = Some(Clamp(Val(model.var[v].value), m.var[v]))

\* two constraints on one variable were folded, the second one moving the
\* value further, while the other variable kept a value outside its bounds
ClampWitness ==
  /\ Done
  /\ \E v, w \in VarNames :
       /\ Cardinality({c \in ConstrIds : InitiallyFoldable(c) /\ VarOf(c) = v}) = 2
       /\ m.var[v].value # model.var[v].value
       /\ m.var[v].value # None /\ m.var[v].lb # None /\ m.var[v].ub # None
       /\ Val(m.var[v].lb) < Val(m.var[v].ub)
       /\ ~Referenced(w) /\ m.var[w].value # None /\ m.var[w].lb # None
       /\ Val(m.var[w].value) < Val(m.var[w].lb)
====
